---------------------------- MODULE Spec2Model ----------------------------
(***************************************************************************)
(* Sparse binary merkle trees (eth2/_utils/merkle/sparse.py).              *)
(*                                                                         *)
(* A byte string is a sequence of integers and `+` on bytes is \o.  A      *)
(* digest is a byte string: a one-element sequence for a raw 32-byte value *)
(* (<<0>> is b'\x00' * 32) or the bracketed pre-image for a hash output.   *)
(* hash_eth2 is therefore collision-free: equal outputs have equal inputs. *)
(* A tree is a sequence of layers, root layer first; Python's tree[0] is   *)
(* tree[1] here and Python's layer[j] is layer[j + 1].                     *)
(***************************************************************************)
EXTENDS Integers, Sequences, FiniteSets

\* TreeDepth is 32 in the source; the model runs the same loops at a small depth.
TreeDepth == 2

\* Longest input sequence: one more than the 2^TreeDepth leaves the tree can address.
MaxLeaves == 5

ZeroDigest == <<0>>

\* Leaf digests handed to the builder: the all-zero digest and two other raw values.
LeafDigests == {ZeroDigest, <<1>>, <<2>>}

\* A raw digest that is in no tree.
OtherDigest == <<3>>

\* Data items: two short byte strings and 64 zero bytes.
Items == {<<7>>, <<8>>, ZeroDigest \o ZeroDigest}

SeqsUpTo(S, n) == UNION {[1..m -> S] : m \in 0..n}

LeafSeqs == SeqsUpTo(LeafDigests, MaxLeaves)
ItemSeqs == SeqsUpTo(Items, MaxLeaves)

---------------------------------------------------------------------------
\* Collaborators imported by sparse.py.

hash_eth2(data) == <<-1>> \o data \o <<-2>>

calc_parent_hash(left_node, right_node) == hash_eth2(left_node \o right_node)

hash_layer(layer) ==
    [j \in 1..(Len(layer) \div 2) |-> calc_parent_hash(layer[2 * j - 1], layer[2 * j])]

update_tuple_item(tuple_data, index, new_item) ==
    [tuple_data EXCEPT ![index + 1] = new_item]

get_root(t) == t[1][1]

\* The sibling of position pos in a layer: pos XOR 1.
Sibling(pos) == IF pos % 2 = 0 THEN pos + 1 ELSE pos - 1

get_merkle_proof(t, item_index) ==
    [lvl1 \in 1..(Len(t) - 1) |->
        t[Len(t) - (lvl1 - 1)][Sibling(item_index \div (2 ^ (lvl1 - 1))) + 1]]

---------------------------------------------------------------------------
\* sparse.py

RECURSIVE EmptyNode(_)
EmptyNode(n) ==
    IF n = 0 THEN ZeroDigest
    ELSE hash_eth2(EmptyNode(n - 1) \o EmptyNode(n - 1))

\* A faulty variant: the level-0 entry is hashed like the others.
EmptyNodeHashes_hashed == [n \in 0..(TreeDepth - 1) |-> EmptyNode(n + 1)]

EmptyNodeHashes == [n \in 0..(TreeDepth - 1) |-> EmptyNode(n)]

\* A faulty variant: every level is padded with the raw all-zero digest.
PadTop_zero(t, n) ==
    IF Len(t[1]) % 2 = 1
    THEN update_tuple_item(t, 0, t[1] \o <<ZeroDigest>>)
    ELSE t

\* Round n of the builder's loop pads tree[0] when its length is odd ...
PadTop(t, n) ==
    IF Len(t[1]) % 2 = 1
    THEN update_tuple_item(t, 0, t[1] \o <<EmptyNodeHashes[n]>>)
    ELSE t

\* ... and then prepends the parent layer of tree[0].
BuildRound(t, n) == <<hash_layer(PadTop(t, n)[1])>> \o PadTop(t, n)

RECURSIVE BuildLoop(_, _)
BuildLoop(t, n) ==
    IF n = TreeDepth THEN t ELSE BuildLoop(BuildRound(t, n), n + 1)

\* A faulty variant: a single leaf is refused too.
NoLeaves_one(lvs) == Len(lvs) <= 1

NoLeaves(lvs) == Len(lvs) = 0

\* Defined for a non-empty sequence; the empty one raises ValueError.
calc_merkle_tree_from_leaves(lvs) == BuildLoop(<<lvs>>, 0)

get_merkle_root(lvs) == get_root(calc_merkle_tree_from_leaves(lvs))

\* A faulty variant: every leaf is the hash of the first item.
ItemLeaves_first(its) == [j \in 1..Len(its) |-> hash_eth2(its[1])]

ItemLeaves(its) == [j \in 1..Len(its) |-> hash_eth2(its[j])]

calc_merkle_tree(its) == calc_merkle_tree_from_leaves(ItemLeaves(its))

get_merkle_root_from_items(its) == get_root(calc_merkle_tree(its))

\* A faulty variant: a longer proof passes.
ProofLengthOk_atleast(prf) == Len(prf) >= TreeDepth

ProofLengthOk(prf) == Len(prf) = TreeDepth

\* A faulty variant: the quotient is tested without the % 2.
IndexBit_quotient(index, n) == IF index \div (2 ^ n) # 0 THEN 1 ELSE 0

\* The branch test of the verifier's loop: index // (2**i) % 2.
IndexBit(index, n) == (index \div (2 ^ n)) % 2

\* A faulty variant: the two branches exchanged.
VerifyRound_swapped(val, index, prf, n) ==
    IF IndexBit(index, n) # 0
    THEN hash_eth2(val \o prf[n + 1])
    ELSE hash_eth2(prf[n + 1] \o val)

VerifyRound(val, index, prf, n) ==
    IF IndexBit(index, n) # 0
    THEN hash_eth2(prf[n + 1] \o val)
    ELSE hash_eth2(val \o prf[n + 1])

RECURSIVE VerifyLoop(_, _, _, _)
VerifyLoop(val, index, prf, n) ==
    IF n = TreeDepth THEN val
    ELSE VerifyLoop(VerifyRound(val, index, prf, n), index, prf, n + 1)

\* A faulty variant: the lengths are compared, not the contents.
RootMatches_lengths(val, root) == Len(val) = Len(root)

\* The verifier's last line: value == root.
RootMatches(val, root) == val = root

\* Defined for a proof of TreeDepth entries; any other length fails the assert.
verify_merkle_proof(root, leaf, index, prf) ==
    RootMatches(VerifyLoop(leaf, index, prf, 0), root)

---------------------------------------------------------------------------
VARIABLES
    pc,       \* "idle", "build", "returned", "raised", "proved",
              \* "verify", "vreturned", "vraised"
    fn,       \* the public function that was called
    items,    \* its items argument (calc_merkle_tree, get_merkle_root_from_items)
    leaves,   \* the leaves argument of calc_merkle_tree_from_leaves
    tree,     \* the builder's local `tree`; its return value once pc = "returned"
    i,        \* the builder's loop counter
    ret,      \* the digest returned by get_merkle_root / get_merkle_root_from_items
    k,        \* the leaf index a proof was extracted for
    proof,    \* the proof extracted for k
    vargs,    \* the arguments of the verify_merkle_proof call
    value,    \* the verifier's local `value`
    vi,       \* the verifier's loop counter
    vret      \* the verifier's return value once pc = "vreturned"

vars == <<pc, fn, items, leaves, tree, i, ret, k, proof, vargs, value, vi, vret>>

TreeFns == {"calc_merkle_tree_from_leaves", "calc_merkle_tree"}
RootFns == {"get_merkle_root", "get_merkle_root_from_items"}

NoArgs == [root |-> <<>>, leaf |-> <<>>, index |-> 0, proof |-> <<>>]

Init ==
    /\ pc = "idle"
    /\ fn = "none"
    /\ items = <<>>
    /\ leaves = <<>>
    /\ tree = <<>>
    /\ i = 0
    /\ ret = <<>>
    /\ k = 0
    /\ proof = <<>>
    /\ vargs = NoArgs
    /\ value = <<>>
    /\ vi = 0
    /\ vret = FALSE

verifier == <<k, proof, vargs, value, vi, vret>>

\* Entry of calc_merkle_tree_from_leaves, reached directly or through a wrapper.
Enter(f, its, lvs) ==
    /\ fn' = f
    /\ items' = its
    /\ leaves' = lvs
    /\ i' = 0
    /\ IF NoLeaves(lvs)
       THEN pc' = "raised" /\ tree' = <<>>
       ELSE pc' = "build" /\ tree' = <<lvs>>
    /\ UNCHANGED <<ret, verifier>>

Call_calc_merkle_tree_from_leaves ==
    /\ pc = "idle"
    /\ \E lvs \in LeafSeqs : Enter("calc_merkle_tree_from_leaves", <<>>, lvs)

Call_get_merkle_root ==
    /\ pc = "idle"
    /\ \E lvs \in LeafSeqs : Enter("get_merkle_root", <<>>, lvs)

Call_calc_merkle_tree ==
    /\ pc = "idle"
    /\ \E its \in ItemSeqs : Enter("calc_merkle_tree", its, ItemLeaves(its))

Call_get_merkle_root_from_items ==
    /\ pc = "idle"
    /\ \E its \in ItemSeqs : Enter("get_merkle_root_from_items", its, ItemLeaves(its))

BuildStep ==
    /\ pc = "build"
    /\ i < TreeDepth
    /\ tree' = BuildRound(tree, i)
    /\ i' = i + 1
    /\ UNCHANGED <<pc, fn, items, leaves, ret, verifier>>

BuildReturn ==
    /\ pc = "build"
    /\ i = TreeDepth
    /\ pc' = "returned"
    /\ ret' = IF fn \in RootFns THEN get_root(tree) ELSE <<>>
    /\ UNCHANGED <<fn, items, leaves, tree, i, verifier>>

\* The caller reads a proof for one of the leaves it gave off the returned tree.
ExtractProof ==
    /\ pc = "returned"
    /\ fn = "calc_merkle_tree_from_leaves"
    /\ \E idx \in 0..(Len(leaves) - 1) :
          /\ k' = idx
          /\ proof' = get_merkle_proof(tree, idx)
    /\ pc' = "proved"
    /\ UNCHANGED <<fn, items, leaves, tree, i, ret, vargs, value, vi, vret>>

\* Digests a caller may pass in place of the right ones.
Pool ==
    LeafDigests \cup {OtherDigest} \cup {EmptyNodeHashes[n] : n \in 0..(TreeDepth - 1)}
                \cup {proof[n] : n \in 1..Len(proof)} \cup {get_root(tree)}

Honest == [root |-> get_root(tree), leaf |-> leaves[k + 1], index |-> k, proof |-> proof]

\* verify_merkle_proof is entered with arguments a: the assert, then value = leaf.
EnterVerify(a) ==
    /\ vargs' = a
    /\ IF ProofLengthOk(a.proof)
       THEN pc' = "verify" /\ value' = a.leaf
       ELSE pc' = "vraised" /\ value' = <<>>
    /\ vi' = 0
    /\ UNCHANGED <<fn, items, leaves, tree, i, ret, k, proof, vret>>

\* The caller verifies with the right arguments, or with one of them replaced.
Call_verify_merkle_proof ==
    /\ pc = "proved"
    /\ \/ EnterVerify(Honest)
       \/ \E d \in Pool : EnterVerify([Honest EXCEPT !.leaf = d])
       \/ \E d \in Pool : EnterVerify([Honest EXCEPT !.root = d])
       \/ \E n \in 0..(2 ^ (TreeDepth + 2) - 1) : EnterVerify([Honest EXCEPT !.index = n])
       \/ \E n \in 1..Len(proof), d \in Pool : EnterVerify([Honest EXCEPT !.proof[n] = d])
       \/ \E p \in {SubSeq(proof, 1, Len(proof) - 1), <<>>, proof \o <<ZeroDigest>>} :
             EnterVerify([Honest EXCEPT !.proof = p])

VerifyStep ==
    /\ pc = "verify"
    /\ vi < TreeDepth
    /\ value' = VerifyRound(value, vargs.index, vargs.proof, vi)
    /\ vi' = vi + 1
    /\ UNCHANGED <<pc, fn, items, leaves, tree, i, ret, k, proof, vargs, vret>>

VerifyReturn ==
    /\ pc = "verify"
    /\ vi = TreeDepth
    /\ vret' = RootMatches(value, vargs.root)
    /\ pc' = "vreturned"
    /\ UNCHANGED <<fn, items, leaves, tree, i, ret, k, proof, vargs, value, vi>>

Next ==
    \/ Call_calc_merkle_tree_from_leaves
    \/ Call_get_merkle_root
    \/ Call_calc_merkle_tree
    \/ Call_get_merkle_root_from_items
    \/ BuildStep
    \/ BuildReturn
    \/ ExtractProof
    \/ Call_verify_merkle_proof
    \/ VerifyStep
    \/ VerifyReturn

Spec == Init /\ [][Next]_vars

---------------------------------------------------------------------------
\* Vocabulary of the properties.

\* The number of leaves a tree of TreeDepth levels can address.
Capacity == 2 ^ TreeDepth

\* The stored layer at level lvl, counted from the leaf layer (level 0).
StoredLayer(lvl) == tree[Len(tree) - lvl]

\* The ancestor of leaf k at level lvl and the sibling of that ancestor.
AncestorOf(lvl) == StoredLayer(lvl)[(k \div (2 ^ lvl)) + 1]
SiblingOf(lvl) == StoredLayer(lvl)[Sibling(k \div (2 ^ lvl)) + 1]

\* The proof for leaf k: the sibling of k's ancestor at each level, leaf level first.
SiblingPath == [n \in 1..TreeDepth |-> SiblingOf(n - 1)]

\* Bit n of a non-negative integer.
BitOf(x, n) == (x \div (2 ^ n)) % 2

\* The two sequences have the same length and differ in exactly one entry.
DiffersInOne(p, q) ==
    /\ Len(p) = Len(q)
    /\ Cardinality({n \in 1..Len(p) : p[n] # q[n]}) = 1

\* verify_merkle_proof has returned for a tree the builder made from at most
\* Capacity leaves, called with that tree's root.
VerifiedAgainstTree ==
    /\ pc = "vreturned"
    /\ Len(leaves) <= Capacity
    /\ vargs.root = tree[1][1]

---------------------------------------------------------------------------
\* C1: proof round-trip. For a tree built from at most 2^TreeDepth leaves, verifying
\* leaf k at index k against the root with the path of siblings of k's ancestors
\* returns true.
C1_RoundTrip ==
    (/\ VerifiedAgainstTree
     /\ vargs.leaf = leaves[k + 1]
     /\ vargs.index = k
     /\ vargs.proof = SiblingPath)
    => vret = TRUE

\* The last of three leaves, whose sibling is the padding digest, verified.
C1_Witness ==
    /\ VerifiedAgainstTree
    /\ Len(leaves) = 3
    /\ k = 2
    /\ vargs = [root |-> tree[1][1], leaf |-> leaves[3], index |-> 2, proof |-> SiblingPath]
    /\ vret = TRUE

\* C2: tree shape. For every non-empty leaf sequence of any length the returned
\* tree has TreeDepth + 1 layers and its layer 0 holds exactly one digest, which is
\* what the root functions return.
C2_TreeShape ==
    pc = "returned" =>
        /\ Len(tree) = TreeDepth + 1
        /\ Len(tree[1]) = 1
        /\ (fn \in RootFns => ret = tree[1][1])

\* C3: rejection of a wrong leaf or of a proof with one entry replaced. For a tree
\* built from at most 2^TreeDepth leaves and the index k, the verifier returns
\* false, and does not raise.
C3_Premise ==
    /\ Len(leaves) <= Capacity
    /\ vargs.root = tree[1][1]
    /\ vargs.index = k
    /\ \/ vargs.leaf # leaves[k + 1] /\ vargs.proof = SiblingPath
       \/ vargs.leaf = leaves[k + 1] /\ DiffersInOne(vargs.proof, SiblingPath)

C3_Rejects ==
    (pc \in {"vreturned", "vraised"} /\ C3_Premise)
    => (pc = "vreturned" /\ vret = FALSE)

\* A proof whose top entry was replaced has been rejected.
C3_Witness ==
    /\ pc = "vreturned"
    /\ C3_Premise
    /\ vargs.leaf = leaves[k + 1]
    /\ vargs.proof[TreeDepth] # SiblingPath[TreeDepth]
    /\ vret = FALSE

\* C4 as stated: rejection of every index whose low TreeDepth bits differ from k's,
\* whatever the leaves are.
C4_Premise ==
    /\ VerifiedAgainstTree
    /\ vargs.leaf = leaves[k + 1]
    /\ vargs.proof = SiblingPath
    /\ vargs.index % Capacity # k % Capacity

C4_WrongIndexRejected == C4_Premise => vret = FALSE

\* C4 as amended: a wrong index is rejected exactly when, at some level where its
\* bit differs from k's, k's ancestor differs from that ancestor's sibling; when
\* ancestor and sibling are equal at every such level the verifier returns true.
\* In particular it is rejected when the leaves are pairwise different and none of
\* them is the all-zero digest.
DistinctNonZeroLeaves ==
    /\ Cardinality({leaves[n] : n \in 1..Len(leaves)}) = Len(leaves)
    /\ \A n \in 1..Len(leaves) : leaves[n] # ZeroDigest

C4_WrongIndexRejectedUnlessTwin ==
    C4_Premise =>
        /\ vret = FALSE <=>
              \E lvl \in 0..(TreeDepth - 1) :
                  /\ BitOf(vargs.index, lvl) # BitOf(k, lvl)
                  /\ AncestorOf(lvl) # SiblingOf(lvl)
        /\ DistinctNonZeroLeaves => vret = FALSE

\* A wrong index has been rejected for three leaves that are pairwise different.
C4_Witness ==
    /\ C4_Premise
    /\ Len(leaves) = 3
    /\ Cardinality({leaves[n] : n \in 1..3}) = 3
    /\ vret = FALSE

\* C5: layered construction. In the returned tree the stored layer at each level
\* below the root is the layer computed for that level (the input leaves at level
\* 0) followed by EmptyNodeHashes[level] when that computed layer has odd length
\* and by nothing otherwise, and entry j of the next computed layer is the hash of
\* entries 2j and 2j+1 of the stored layer, left one first.
ComputedLen(lvl) ==
    IF lvl = 0 THEN Len(leaves) ELSE Len(StoredLayer(lvl - 1)) \div 2

C5_LayerAt(lvl) ==
    /\ Len(StoredLayer(lvl)) = ComputedLen(lvl) + (ComputedLen(lvl) % 2)
    /\ lvl = 0 => SubSeq(StoredLayer(0), 1, Len(leaves)) = leaves
    /\ ComputedLen(lvl) % 2 = 1 =>
          StoredLayer(lvl)[ComputedLen(lvl) + 1] = EmptyNodeHashes[lvl]
    /\ Len(StoredLayer(lvl + 1)) >= ComputedLen(lvl + 1)
    /\ \A j \in 1..ComputedLen(lvl + 1) :
          StoredLayer(lvl + 1)[j] =
              hash_eth2(StoredLayer(lvl)[2 * j - 1] \o StoredLayer(lvl)[2 * j])

C6_Sensitivity ==
    (pc = "returned" /\ Len(leaves) <= Capacity) =>
        /\ fn = "get_merkle_root_from_items" =>
              \A j \in 1..Len(items) : \A x \in Items \ {items[j]} :
                  get_merkle_root_from_items([items EXCEPT ![j] = x]) # ret
        /\ fn = "get_merkle_root" =>
              \A j \in 1..Len(leaves) :
                  \A d \in (LeafDigests \cup {OtherDigest}) \ {leaves[j]} :
                      get_merkle_root([leaves EXCEPT ![j] = d]) # ret

\* The root of three items, the last of which can be replaced.
C6_Witness ==
    /\ pc = "returned"
    /\ fn = "get_merkle_root_from_items"
    /\ Len(items) = 3
    /\ ret = tree[1][1]
    /\ get_merkle_root_from_items([items EXCEPT ![3] = <<7>>]) # ret

\* C7: empty-input rejection. Each of the four functions raises exactly when its
\* input sequence is empty, and then no tree and no root exist; for a non-empty
\* input it does not raise and what it returns is a tree, or a digest.
InputLen == IF fn \in {"calc_merkle_tree", "get_merkle_root_from_items"}
            THEN Len(items) ELSE Len(leaves)

C7_EmptyInputRejected ==
    fn # "none" =>
        /\ pc = "raised" <=> InputLen = 0
        /\ pc = "raised" => tree = <<>> /\ ret = <<>>
        /\ pc = "build" => i \in 0..TreeDepth /\ Len(tree) = i + 1
        /\ pc = "returned" =>
              /\ Len(tree) >= 1
              /\ fn \in RootFns => ret = tree[1][1] /\ Len(ret) >= 1
              /\ fn \in TreeFns => ret = <<>>

\* get_merkle_root_from_items raised on the empty sequence.
C7_Witness ==
    /\ pc = "raised"
    /\ fn = "get_merkle_root_from_items"
    /\ items = <<>>

\* C8: proof-length precondition. The verifier raises exactly when the proof does
\* not have TreeDepth entries, before any round of hashing; with TreeDepth entries
\* it never raises and what it returns is a boolean.
C8_ProofLength ==
    pc \in {"verify", "vreturned", "vraised"} =>
        /\ Len(vargs.proof) # TreeDepth =>
              pc = "vraised" /\ vi = 0 /\ value = <<>> /\ vret = FALSE
        /\ Len(vargs.proof) = TreeDepth =>
              pc # "vraised" /\ vret \in BOOLEAN

\* The verifier raised on a proof one entry too long.
C8_Witness ==
    /\ pc = "vraised"
    /\ Len(vargs.proof) = TreeDepth + 1
    /\ SubSeq(vargs.proof, 1, TreeDepth) = SiblingPath

\* C9: the bits of index from position TreeDepth up are ignored. After n rounds the
\* verifier's value is the one obtained by climbing n levels with index mod
\* 2^TreeDepth, taking at level m the branch bit m selects; the result is the
\* comparison of the last value with the root, and no index is rejected.
RECURSIVE Climb(_, _, _, _)
Climb(leaf, index, prf, n) ==
    IF n = 0 THEN leaf
    ELSE IF BitOf(index, n - 1) = 1
         THEN hash_eth2(prf[n] \o Climb(leaf, index, prf, n - 1))
         ELSE hash_eth2(Climb(leaf, index, prf, n - 1) \o prf[n])

C9_HighBitsIgnored ==
    /\ pc \in {"verify", "vreturned"} =>
          value = Climb(vargs.leaf, vargs.index % Capacity, vargs.proof, vi)
    /\ pc = "vreturned" =>
          /\ vi = TreeDepth
          /\ vret = (Climb(vargs.leaf, vargs.index % Capacity, vargs.proof, TreeDepth)
                        = vargs.root)
          /\ vret = verify_merkle_proof(vargs.root, vargs.leaf,
                                        vargs.index % Capacity, vargs.proof)
    /\ pc = "vraised" => Len(vargs.proof) # TreeDepth

\* An index with a bit set above position TreeDepth - 1 has been accepted.
C9_Witness ==
    /\ pc = "vreturned"
    /\ vargs.index >= Capacity
    /\ vargs.index % Capacity # 0
    /\ vret = TRUE

\* C10: the root does not commit to the number of leaves. The root of fewer than
\* 2^TreeDepth leaves is the root of the same leaves followed by all-zero digests,
\* one or any number that fits.
Zeros(m) == [n \in 1..m |-> ZeroDigest]

C10_TrailingZeros ==
    (pc = "returned" /\ fn = "get_merkle_root" /\ Len(leaves) < Capacity) =>
        /\ ret = get_merkle_root(Append(leaves, ZeroDigest))
        /\ \A m \in 1..(Capacity - Len(leaves)) :
              ret = get_merkle_root(leaves \o Zeros(m))

\* The root of two leaves, the second not zero: a third, zero leaf opens a new pair.
C10_Witness ==
    /\ pc = "returned"
    /\ fn = "get_merkle_root"
    /\ Len(leaves) = 2
    /\ leaves[2] # ZeroDigest
    /\ ret = get_merkle_root(<<leaves[1], leaves[2], ZeroDigest>>)

=============================================================================
